---- MODULE Spec2Model ----
(***************************************************************************)
(* Model of the MyOPL language server (LSP/main.py): the analyzer          *)
(* parse_document, the document store document_states, the two             *)
(* notification handlers did_open / did_change and the three resolvers     *)
(* definition, hover and completions.                                      *)
(*                                                                         *)
(* A Python str is a sequence of one-character strings, so that strip,     *)
(* split, find, upper and the identifier regex are computed character by   *)
(* character as the interpreter computes them.  Python indices are         *)
(* zero-based; TLA+ sequences are one-based, and every column that leaves  *)
(* a helper is a zero-based Python column.                                 *)
(***************************************************************************)
EXTENDS Integers, Sequences, FiniteSets, TLC

(* ---------------------------------------------------------------------- *)
(* Static tables                                                           *)
(* ---------------------------------------------------------------------- *)

KEYWORDS ==
  << <<"V","A","R">>,
     <<"A","N","D">>,
     <<"O","R">>,
     <<"N","O","T">>,
     <<"I","F">>,
     <<"E","L","I","F">>,
     <<"E","L","S","E">>,
     <<"F","O","R">>,
     <<"T","O">>,
     <<"S","T","E","P">>,
     <<"W","H","I","L","E">>,
     <<"F","U","N">>,
     <<"T","H","E","N">>,
     <<"E","N","D">>,
     <<"R","E","T","U","R","N">>,
     <<"C","O","N","T","I","N","U","E">>,
     <<"B","R","E","A","K">> >>

BUILTIN_FUNCTIONS ==
  << <<<<"p","r","i","n","t">>,
        <<"P","r","i","n","t","s"," ","t","h","e"," ","g","i","v","e","n"," ","v","a","l","u","e","s">>>>,
     <<<<"p","r","i","n","t","_","r","e","t">>,
        <<"P","r","i","n","t","s"," ","a","n","d"," ","r","e","t","u","r","n","s"," ","t","h","e"," ","g","i","v","e","n"," ","v","a","l","u","e","s">>>>,
     <<<<"i","n","p","u","t">>,
        <<"G","e","t","s"," ","i","n","p","u","t"," ","f","r","o","m"," ","u","s","e","r">>>>,
     <<<<"i","n","p","u","t","_","i","n","t">>,
        <<"G","e","t","s"," ","i","n","t","e","g","e","r"," ","i","n","p","u","t"," ","f","r","o","m"," ","u","s","e","r">>>>,
     <<<<"c","l","e","a","r">>,
        <<"C","l","e","a","r","s"," ","t","h","e"," ","s","c","r","e","e","n">>>>,
     <<<<"i","s","_","n","u","m","b","e","r">>,
        <<"C","h","e","c","k","s"," ","i","f"," ","v","a","l","u","e"," ","i","s"," ","a"," ","n","u","m","b","e","r">>>>,
     <<<<"i","s","_","s","t","r","i","n","g">>,
        <<"C","h","e","c","k","s"," ","i","f"," ","v","a","l","u","e"," ","i","s"," ","a"," ","s","t","r","i","n","g">>>>,
     <<<<"i","s","_","l","i","s","t">>,
        <<"C","h","e","c","k","s"," ","i","f"," ","v","a","l","u","e"," ","i","s"," ","a"," ","l","i","s","t">>>>,
     <<<<"i","s","_","f","u","n","c","t","i","o","n">>,
        <<"C","h","e","c","k","s"," ","i","f"," ","v","a","l","u","e"," ","i","s"," ","a"," ","f","u","n","c","t","i","o","n">>>>,
     <<<<"a","p","p","e","n","d">>,
        <<"A","p","p","e","n","d","s"," ","i","t","e","m"," ","t","o"," ","l","i","s","t">>>>,
     <<<<"p","o","p">>,
        <<"R","e","m","o","v","e","s"," ","a","n","d"," ","r","e","t","u","r","n","s"," ","i","t","e","m"," ","f","r","o","m"," ","l","i","s","t">>>>,
     <<<<"e","x","t","e","n","d">>,
        <<"E","x","t","e","n","d","s"," ","l","i","s","t"," ","w","i","t","h"," ","a","n","o","t","h","e","r"," ","l","i","s","t">>>>,
     <<<<"l","e","n">>,
        <<"R","e","t","u","r","n","s"," ","l","e","n","g","t","h"," ","o","f"," ","c","o","l","l","e","c","t","i","o","n">>>>,
     <<<<"r","u","n">>,
        <<"R","u","n","s"," ","c","o","d","e"," ","f","r","o","m"," ","s","t","r","i","n","g">>>> >>

LowerLetters ==
  <<"a","b","c","d","e","f","g","h","i","j","k","l","m","n","o","p","q","r","s","t","u","v","w","x","y","z">>

UpperLetters ==
  <<"A","B","C","D","E","F","G","H","I","J","K","L","M","N","O","P","Q","R","S","T","U","V","W","X","Y","Z">>

Digits ==
  <<"0","1","2","3","4","5","6","7","8","9">>

(* ---------------------------------------------------------------------- *)
(* Character classes and str helpers                                       *)
(* ---------------------------------------------------------------------- *)

Elems(s) == {s[i] : i \in 1..Len(s)}

\* str.isspace() on the ASCII characters
Whitespace == {" ", "\t", "\n", "\r"}

\* [a-zA-Z_]
IdentStartChars == Elems(LowerLetters) \cup Elems(UpperLetters) \cup {"_"}

\* [a-zA-Z0-9_], which on ASCII text is also the class \w that \b looks at
WordChars == IdentStartChars \cup Elems(Digits)

IsIdentStart(c) == c \in IdentStartChars

IsWordChar(c) == c \in WordChars

UpperOf == [c \in Elems(LowerLetters) |->
              UpperLetters[CHOOSE i \in 1..Len(LowerLetters) : LowerLetters[i] = c]]

upper_char(c) == IF c \in DOMAIN UpperOf THEN UpperOf[c] ELSE c

\* str.upper()
upper(s) == [i \in 1..Len(s) |-> upper_char(s[i])]

\* str.startswith(prefix)
startswith(s, prefix) ==
  /\ Len(prefix) <= Len(s)
  /\ SubSeq(s, 1, Len(prefix)) = prefix

\* Index of the first character at or after i that is not whitespace
\* (Len(s) + 1 when there is none), and of the last one at or before i
RECURSIVE first_non_space(_, _)
first_non_space(s, i) ==
  IF i > Len(s) \/ s[i] \notin Whitespace THEN i ELSE first_non_space(s, i + 1)

RECURSIVE last_non_space(_, _)
last_non_space(s, i) ==
  IF i < 1 \/ s[i] \notin Whitespace THEN i ELSE last_non_space(s, i - 1)

\* Index of the first whitespace character at or after i
RECURSIVE first_space(_, _)
first_space(s, i) ==
  IF i > Len(s) \/ s[i] \in Whitespace THEN i ELSE first_space(s, i + 1)

\* str.lstrip() / str.strip() with no argument
lstrip(s) == SubSeq(s, first_non_space(s, 1), Len(s))

strip(s) == SubSeq(s, first_non_space(s, 1), last_non_space(s, Len(s)))

\* str.find(sub): zero-based index of the first occurrence, -1 when absent
RECURSIVE find_from(_, _, _)
find_from(s, sub, i) ==
  IF i + Len(sub) - 1 > Len(s) THEN -1
  ELSE IF SubSeq(s, i, i + Len(sub) - 1) = sub THEN i - 1
  ELSE find_from(s, sub, i + 1)

find(s, sub) == find_from(s, sub, 1)

\* str.split(maxsplit=n) with no separator: runs of whitespace separate the
\* fields, and after n splits the remainder (leading whitespace dropped) is
\* the last field
RECURSIVE split(_, _)
split(s, maxsplit) ==
  LET t == lstrip(s)
      e == first_space(t, 1)
  IN IF t = <<>> THEN <<>>
     ELSE IF maxsplit = 0 \/ e > Len(t) THEN <<t>>
     ELSE <<SubSeq(t, 1, e - 1)>> \o split(SubSeq(t, e + 1, Len(t)), maxsplit - 1)

\* Index of the first "\n" at or after i
RECURSIVE first_newline(_, _)
first_newline(s, i) ==
  IF i > Len(s) \/ s[i] = "\n" THEN i ELSE first_newline(s, i + 1)

\* str.splitlines(keepends) on text whose only line boundary is "\n"
RECURSIVE splitlines(_, _)
splitlines(s, keepends) ==
  LET e == first_newline(s, 1)
  IN IF s = <<>> THEN <<>>
     ELSE IF e > Len(s) THEN <<s>>
     ELSE <<SubSeq(s, 1, IF keepends THEN e ELSE e - 1)>>
            \o splitlines(SubSeq(s, e + 1, Len(s)), keepends)

\* Index of the first character at or after i that is not a word character
RECURSIVE word_end(_, _)
word_end(line, i) ==
  IF i > Len(line) \/ ~IsWordChar(line[i]) THEN i ELSE word_end(line, i + 1)

\* re.finditer(r'\b([a-zA-Z_][a-zA-Z0-9_]*)\b', line): the matches from left
\* to right, each with match.start(), match.end() (zero-based, end exclusive)
\* and match.group(1).  A match starts where an identifier-start character
\* follows a word boundary, and runs greedily to the next non-word character,
\* where the closing \b holds.
RECURSIVE finditer_from(_, _)
finditer_from(line, i) ==
  IF i > Len(line) THEN <<>>
  ELSE IF IsIdentStart(line[i]) /\ (i = 1 \/ ~IsWordChar(line[i - 1]))
  THEN LET e == word_end(line, i + 1)
       IN <<[start |-> i - 1, end |-> e - 1, group |-> SubSeq(line, i, e - 1)]>>
            \o finditer_from(line, e)
  ELSE finditer_from(line, i + 1)

finditer(line) == finditer_from(line, 1)

\* x in KEYWORDS (a list), x in BUILTIN_FUNCTIONS (a dict: membership of keys)
KeywordSet == Elems(KEYWORDS)

InKeywords(word) == word \in KeywordSet

\* BUILTIN_FUNCTIONS.keys()
BuiltinNames == {BUILTIN_FUNCTIONS[i][1] : i \in 1..Len(BUILTIN_FUNCTIONS)}

InBuiltins(word) == word \in BuiltinNames

\* BUILTIN_FUNCTIONS[word]
BuiltinDoc(word) ==
  BUILTIN_FUNCTIONS[CHOOSE i \in 1..Len(BUILTIN_FUNCTIONS) : BUILTIN_FUNCTIONS[i][1] = word][2]

(* ---------------------------------------------------------------------- *)
(* dict: an insertion-ordered sequence of <<key, value>> entries           *)
(* ---------------------------------------------------------------------- *)

DictHas(d, k) == \E i \in 1..Len(d) : d[i][1] = k

DictGet(d, k) == d[CHOOSE i \in 1..Len(d) : d[i][1] = k][2]

\* An assignment that never replaces an entry
DictSet_append(d, k, v) == Append(d, <<k, v>>)

\* d[k] = v
DictSet(d, k, v) ==
  IF DictHas(d, k)
  THEN [i \in 1..Len(d) |-> IF d[i][1] = k THEN <<k, v>> ELSE d[i]]
  ELSE Append(d, <<k, v>>)

DictKeys(d) == {d[i][1] : i \in 1..Len(d)}

(* ---------------------------------------------------------------------- *)
(* String literals of the source                                           *)
(* ---------------------------------------------------------------------- *)

\* "VAR "
VarPrefix == <<"V","A","R"," ">>

\* "//"
CommentMarker == <<"/","/">>

\* "undefined"
UndefinedValue == <<"u","n","d","e","f","i","n","e","d">>

\* f"Undefined identifier: '{word}'"
UndefinedMessage(word) ==
  <<"U","n","d","e","f","i","n","e","d"," ","i","d","e","n","t","i","f","i","e","r",":"," ","'">>
    \o word \o <<"'">>

\* types.DiagnosticSeverity.Error
SeverityError == 1

\* types.CompletionItemKind.Function / Variable / Keyword
KindFunction == 3

KindVariable == 6

KindKeyword == 14

\* types.InsertTextFormat.Snippet
FormatSnippet == 2

Position(line, character) == [line |-> line, character |-> character]

(* ---------------------------------------------------------------------- *)
(* parse_document                                                          *)
(* ---------------------------------------------------------------------- *)

\* One iteration of the first loop: the effect of line number line_num
\* (zero-based) on the variables dict.
collect_line(variables, line_num, raw_line) ==
  LET line == strip(raw_line) IN
  IF startswith(upper(line), VarPrefix)
  THEN LET parts == split(line, 2) IN
       IF Len(parts) >= 2
       THEN LET var_name  == parts[2]
                var_value == IF Len(parts) > 2 THEN parts[3] ELSE UndefinedValue
                col       == find(line, var_name)
            IN DictSet(variables, var_name, <<line_num, col, var_value>>)
       ELSE variables
  ELSE variables

RECURSIVE collect_variables(_, _, _)
collect_variables(lines, i, variables) ==
  IF i > Len(lines) THEN variables
  ELSE collect_variables(lines, i + 1, collect_line(variables, i - 1, lines[i]))

\* The membership test of the second loop: True when the word is accepted
is_valid_identifier(word, valid_identifiers) ==
  \/ InKeywords(word)
  \/ word \in valid_identifiers
  \/ InKeywords(upper(word))
  \/ InBuiltins(word)

Diagnostic(line_num, col, word) ==
  [range    |-> [start |-> Position(line_num, col),
                 end   |-> Position(line_num, col + Len(word))],
   message  |-> UndefinedMessage(word),
   severity |-> SeverityError,
   source   |-> "MyOPL"]

\* One iteration of the second loop: the diagnostics of line number line_num
validate_line(valid_identifiers, line_num, raw_line) ==
  LET line == strip(raw_line)
      Flagged(m) == ~is_valid_identifier(m.group, valid_identifiers)
      bad == SelectSeq(finditer(line), Flagged)
  IN IF line = <<>> \/ startswith(line, CommentMarker) THEN <<>>
     ELSE [k \in 1..Len(bad) |-> Diagnostic(line_num, bad[k].start, bad[k].group)]

RECURSIVE validate_lines(_, _, _)
validate_lines(lines, i, valid_identifiers) ==
  IF i > Len(lines) THEN <<>>
  ELSE validate_line(valid_identifiers, i - 1, lines[i])
         \o validate_lines(lines, i + 1, valid_identifiers)

parse_document(text) ==
  LET lines     == splitlines(text, FALSE)
      variables == collect_variables(lines, 1, <<>>)
      valid_identifiers == DictKeys(variables) \cup BuiltinNames
  IN [variables |-> variables, diagnostics |-> validate_lines(lines, 1, valid_identifiers)]

(* ---------------------------------------------------------------------- *)
(* Inputs                                                                  *)
(* ---------------------------------------------------------------------- *)

\* A text has at most MaxLines lines; cursor lines run over 0..MaxLines, one
\* past the last line of the longest text
MaxLines == 2

\* Cursor characters run over 0..MaxChar, the length of the longest line
MaxChar == 9

Uris == {"a.myopl", "b.myopl"}

\* The lines texts are made of:
\*   " var or x"   an indented lower-case declaration whose name is a keyword,
\*                 with an undeclared identifier as its value
\*   "VAR len"     a declaration without a value whose name is a builtin
\*   "VAR x=len"   a declaration written without blanks around "=", with a
\*                 builtin after it
LineCorpus ==
  { <<" ","v","a","r"," ","o","r"," ","x">>,
    <<"V","A","R"," ","l","e","n">>,
    <<"V","A","R"," ","x","=","l","e","n">> }

RECURSIVE SeqsUpTo(_, _)
SeqsUpTo(S, n) ==
  IF n = 0 THEN {<<>>}
  ELSE LET shorter == SeqsUpTo(S, n - 1)
       IN shorter \cup {Append(s, e) : s \in shorter, e \in S}

\* "\n".join(lines)
RECURSIVE Join(_)
Join(ls) ==
  IF ls = <<>> THEN <<>>
  ELSE IF Len(ls) = 1 THEN ls[1]
  ELSE ls[1] \o <<"\n">> \o Join(Tail(ls))

Texts == {Join(ls) : ls \in SeqsUpTo(LineCorpus, MaxLines)}

\* parse_document over the texts, tabulated so that every text is analysed
\* once (@@ makes the table explicit)
ParseTable == [t \in Texts |-> parse_document(t)] @@ <<>>

CursorLines == 0..MaxLines

CursorChars == 0..MaxChar

(* ---------------------------------------------------------------------- *)
(* State                                                                   *)
(* ---------------------------------------------------------------------- *)

VARIABLES
  document_states,  \* the dict uri -> {'text', 'variables'}
  workspace,        \* ls.workspace: uri -> Document
  published,        \* the server.publish_diagnostics calls of the last handler
  response,         \* what the last handler returned (or the fault it raised)
  last              \* the message the last handler was called with

vars == <<document_states, workspace, published, response, last>>

None == [tag |-> "None"]

IndexError == [tag |-> "IndexError"]

\* A message of the client: its method, params.text_document.uri, the full
\* text of the document (open and change), params.position (requests)
Message(kind, uri, text, line, character) ==
  [kind |-> kind, uri |-> uri, text |-> text, line |-> line, character |-> character]

\* Between two messages the server waits in its message loop
Waiting == Message("waiting", "", <<>>, 0, 0)

Init ==
  /\ document_states = <<>>
  /\ workspace = <<>>
  /\ published = <<>>
  /\ response = None
  /\ last = Waiting

(* ---------------------------------------------------------------------- *)
(* did_open / did_change                                                   *)
(* ---------------------------------------------------------------------- *)

\* A store rebuilt around the new snapshot: the other documents are lost
StoreSnapshot_rebuilt(states, uri, text, variables) ==
  (uri :> [text |-> text, variables |-> variables])

\* document_states[uri] = {'text': text, 'variables': variables}
StoreSnapshot(states, uri, text, variables) ==
  (uri :> [text |-> text, variables |-> variables]) @@ states

\* server.publish_diagnostics(uri, diagnostics): the call, with the store as
\* it is when the call is made
Publish(states, uri, diagnostics) ==
  [uri |-> uri, diagnostics |-> diagnostics, states |-> states]

\* pygls.workspace.Document: the source and its lines, line ends kept
Document(source) == [source |-> source, lines |-> splitlines(source, TRUE)]

\* A handler that publishes only when there is something to report
analyze_and_store_quiet(uri, text) ==
  LET parsed == ParseTable[text]
      states == StoreSnapshot(document_states, uri, text, parsed.variables)
  IN /\ document_states' = states
     /\ published' = IF parsed.diagnostics = <<>> THEN <<>>
                      ELSE <<Publish(states, uri, parsed.diagnostics)>>
     /\ response' = None

\* The body shared by the two handlers, from the parse to the publish
analyze_and_store(uri, text) ==
  LET parsed == ParseTable[text]
      states == StoreSnapshot(document_states, uri, text, parsed.variables)
  IN /\ document_states' = states
     /\ published' = <<Publish(states, uri, parsed.diagnostics)>>
     /\ response' = None

did_open(uri, text) ==
  /\ last = Waiting
  /\ workspace' = (uri :> Document(text)) @@ workspace
  /\ analyze_and_store(uri, text)
  /\ last' = Message("did_open", uri, text, 0, 0)

\* The workspace applies the change before the handler runs, and the handler
\* reads the text back from it
did_change(uri, text) ==
  /\ last = Waiting
  /\ workspace' = (uri :> Document(text)) @@ workspace
  /\ LET current_text == workspace'[uri].source
     IN analyze_and_store(uri, current_text)
  /\ last' = Message("did_change", uri, text, 0, 0)

(* ---------------------------------------------------------------------- *)
(* definition                                                              *)
(* ---------------------------------------------------------------------- *)

\* match.start() <= pos.character <= match.end()
UnderCursor(m, character) == m.start <= character /\ character <= m.end

Location(uri, line_num, col, var_name) ==
  [tag |-> "Location", uri |-> uri,
   range |-> [start |-> Position(line_num, col),
              end   |-> Position(line_num, col + Len(var_name))]]

definition_result(uri, line, character) ==
  IF uri \notin DOMAIN document_states THEN None
  ELSE LET lines == workspace[uri].lines IN
       IF line >= Len(lines) THEN IndexError
       ELSE LET variables == document_states[uri].variables
                Returns(m) == UnderCursor(m, character) /\ DictHas(variables, m.group)
                hits == SelectSeq(finditer(lines[line + 1]), Returns)
            IN IF hits = <<>> THEN None
               ELSE LET var_name == hits[1].group
                        info == DictGet(variables, var_name)
                    IN Location(uri, info[1], info[2], var_name)

definition(uri, line, character) ==
  /\ last = Waiting
  /\ response' = definition_result(uri, line, character)
  /\ published' = <<>>
  /\ last' = Message("definition", uri, <<>>, line, character)
  /\ UNCHANGED <<document_states, workspace>>

(* ---------------------------------------------------------------------- *)
(* hover                                                                   *)
(* ---------------------------------------------------------------------- *)

\* The grave accent of the Markdown code spans; the TLA+ lexer does not
\* accept that character inside a string, so the one character has a name
Backtick == "GRAVE ACCENT"

\* f"**Variable**: `{word}`\n\n**Value**: `{value}`"
variable_markdown(word, value) ==
  <<"*","*","V","a","r","i","a","b","l","e","*","*",":"," ",Backtick>>
    \o word
    \o <<Backtick,"\n","\n","*","*","V","a","l","u","e","*","*",":"," ",Backtick>>
    \o value \o <<Backtick>>

\* f"**Built-in function**: `{word}`\n\n{BUILTIN_FUNCTIONS[word]}"
builtin_markdown(word) ==
  <<"*","*","B","u","i","l","t","-","i","n"," ","f","u","n","c","t","i","o","n","*","*",":"," ",Backtick>>
    \o word \o <<Backtick,"\n","\n">> \o BuiltinDoc(word)

\* f"**Keyword**: `{word.upper()}`"
keyword_markdown(word) ==
  <<"*","*","K","e","y","w","o","r","d","*","*",":"," ",Backtick>>
    \o upper(word) \o <<Backtick>>

MarkupContent(value) == [kind |-> "markdown", value |-> value]

VariableHover(word, value, line, m) ==
  [tag |-> "Hover",
   contents |-> MarkupContent(variable_markdown(word, value)),
   range |-> [start |-> Position(line, m.start), end |-> Position(line, m.end)]]

BuiltinHover(word) ==
  [tag |-> "Hover", contents |-> MarkupContent(builtin_markdown(word))]

KeywordHover(word) ==
  [tag |-> "Hover", contents |-> MarkupContent(keyword_markdown(word))]

\* The checks with the builtin registry consulted before the variables
hover_word_builtin_first(variables, word, line, m) ==
  IF InBuiltins(word) THEN BuiltinHover(word)
  ELSE IF DictHas(variables, word)
  THEN VariableHover(word, DictGet(variables, word)[3], line, m)
  ELSE KeywordHover(word)

\* The three checks on the word under the cursor, in the order of the source
hover_word(variables, word, line, m) ==
  IF DictHas(variables, word)
  THEN VariableHover(word, DictGet(variables, word)[3], line, m)
  ELSE IF InBuiltins(word) THEN BuiltinHover(word)
  ELSE KeywordHover(word)

hover_result(uri, line, character) ==
  IF uri \notin DOMAIN document_states THEN None
  ELSE LET lines == workspace[uri].lines IN
       IF line >= Len(lines) THEN IndexError
       ELSE LET variables == document_states[uri].variables
                Returns(m) ==
                  /\ UnderCursor(m, character)
                  /\ \/ DictHas(variables, m.group)
                     \/ InBuiltins(m.group)
                     \/ InKeywords(upper(m.group))
                hits == SelectSeq(finditer(lines[line + 1]), Returns)
            IN IF hits = <<>> THEN None
               ELSE hover_word(variables, hits[1].group, line, hits[1])

hover(uri, line, character) ==
  /\ last = Waiting
  /\ response' = hover_result(uri, line, character)
  /\ published' = <<>>
  /\ last' = Message("hover", uri, <<>>, line, character)
  /\ UNCHANGED <<document_states, workspace>>

(* ---------------------------------------------------------------------- *)
(* completions                                                             *)
(* ---------------------------------------------------------------------- *)

LowerOf == [c \in Elems(UpperLetters) |->
              LowerLetters[CHOOSE i \in 1..Len(UpperLetters) : UpperLetters[i] = c]]

lower_char(c) == IF c \in DOMAIN LowerOf THEN LowerOf[c] ELSE c

\* str.lower()
lower(s) == [i \in 1..Len(s) |-> lower_char(s[i])]

VariableItem(var_name, var_info) ==
  [label |-> var_name,
   kind |-> KindVariable,
   documentation |-> <<"V","a","l","u","e",":"," ">> \o var_info[3],
   detail |-> <<"V","a","r","i","a","b","l","e",":"," ">> \o var_name
                \o <<" ","="," ">> \o var_info[3]]

KeywordItem(kw) ==
  [label |-> kw,
   kind |-> KindKeyword,
   documentation |-> <<"M","y","O","P","L"," ","k","e","y","w","o","r","d">>,
   insert_text |-> lower(kw)]

FunctionItem(func) ==
  [label |-> func,
   kind |-> KindFunction,
   documentation |-> BuiltinDoc(func),
   insert_text |-> func \o <<"(","$","0",")">>,
   insert_text_format |-> FormatSnippet]

\* The variables of every stored document, whatever the uri
variable_items_all(uri) ==
  LET RECURSIVE Gather(_)
      Gather(uris) ==
        IF uris = {} THEN <<>>
        ELSE LET u == CHOOSE x \in uris : TRUE
                 variables == document_states[u].variables
             IN [i \in 1..Len(variables) |-> VariableItem(variables[i][1], variables[i][2])]
                  \o Gather(uris \ {u})
  IN Gather(DOMAIN document_states)

variable_items(uri) ==
  IF uri \in DOMAIN document_states
  THEN LET variables == document_states[uri].variables
       IN [i \in 1..Len(variables) |-> VariableItem(variables[i][1], variables[i][2])]
  ELSE <<>>

completions_result(uri) ==
  [tag |-> "items",
   items |-> variable_items(uri)
               \o [i \in 1..Len(KEYWORDS) |-> KeywordItem(KEYWORDS[i])]
               \o [i \in 1..Len(BUILTIN_FUNCTIONS) |-> FunctionItem(BUILTIN_FUNCTIONS[i][1])]]

completions(uri, line, character) ==
  /\ last = Waiting
  /\ response' = completions_result(uri)
  /\ published' = <<>>
  /\ last' = Message("completions", uri, <<>>, line, character)
  /\ UNCHANGED <<document_states, workspace>>

(* ---------------------------------------------------------------------- *)
(* The server handles one message at a time                                *)
(* ---------------------------------------------------------------------- *)

\* The handler has returned: the result goes to the client and the server
\* takes the next message
next_message ==
  /\ last # Waiting
  /\ last' = Waiting
  /\ response' = None
  /\ published' = <<>>
  /\ UNCHANGED <<document_states, workspace>>

\* The documents the next message can be about: the client's next message is
\* taken once the handler of the previous one has returned
Recipients == IF last = Waiting THEN Uris ELSE {}

Next ==
  \/ \E uri \in Recipients, text \in Texts : did_open(uri, text)
  \/ \E uri \in Recipients, text \in Texts : did_change(uri, text)
  \/ \E uri \in Recipients, line \in CursorLines, character \in CursorChars :
       definition(uri, line, character)
  \/ \E uri \in Recipients, line \in CursorLines, character \in CursorChars :
       hover(uri, line, character)
  \/ \E uri \in Recipients, line \in CursorLines, character \in CursorChars :
       completions(uri, line, character)
  \/ next_message

Spec == Init /\ [][Next]_vars

(* ---------------------------------------------------------------------- *)
(* Properties                                                              *)
(* ---------------------------------------------------------------------- *)

Notifications == {"did_open", "did_change"}

Requests == {"definition", "hover", "completions"}

\* The snapshot of uri is the text the workspace holds for it, with the
\* variables of that text
SnapshotIsLatest(uri) ==
  /\ uri \in DOMAIN document_states
  /\ uri \in DOMAIN workspace
  /\ document_states[uri] =
       [text      |-> workspace[uri].source,
        variables |-> ParseTable[workspace[uri].source].variables]

\* C1: the store maps an id to at most one snapshot; after every message each
\* id that was opened or changed holds the text of its latest open/change and
\* the variables parse_document gives for that text; an open/change stores
\* the text of the message under its id and leaves the snapshot of every
\* other id as it was; a request leaves the store as it was.
C1_StoreHoldsLatestAnalysis ==
  [][ /\ \A uri \in (DOMAIN document_states' \cup DOMAIN workspace') :
           SnapshotIsLatest(uri)'
      /\ last'.kind \in Notifications =>
           /\ last'.uri \in DOMAIN document_states'
           /\ document_states'[last'.uri].text = last'.text
           /\ DOMAIN document_states' = DOMAIN document_states \cup {last'.uri}
           /\ \A other \in DOMAIN document_states \ {last'.uri} :
                document_states'[other] = document_states[other]
      /\ last'.kind \notin Notifications =>
           document_states' = document_states ]_vars

\* A change of one document while the other holds a snapshot with another text
C1_Witness ==
  /\ last.kind = "did_change"
  /\ DOMAIN document_states = Uris
  /\ \E other \in Uris \ {last.uri} :
       /\ document_states[other].text # document_states[last.uri].text
       /\ document_states[other].variables # <<>>

\* C2: an open or change pushes exactly one diagnostic list, for the id of
\* the message, equal to the diagnostics of parse_document on the new text
\* (the empty list included), and the store already holds the new snapshot
\* when the push is made; a request pushes nothing.
C2_OnePushPerAnalysis ==
  /\ last.kind \in Notifications =>
       /\ Len(published) = 1
       /\ published[1].uri = last.uri
       /\ published[1].diagnostics = parse_document(last.text).diagnostics
       /\ last.uri \in DOMAIN published[1].states
       /\ published[1].states[last.uri].text = last.text
  /\ last.kind \notin Notifications => published = <<>>

\* A change to a text that has lines and no diagnostic: the empty list is pushed
C2_Witness ==
  /\ last.kind = "did_change"
  /\ last.text # <<>>
  /\ Len(published) = 1
  /\ published[1].diagnostics = <<>>

(* ---------------------------------------------------------------------- *)
(* What the properties say about a text, read off the text itself          *)
(* ---------------------------------------------------------------------- *)

\* A line of the form VAR <name> [<value text>], the keyword in any case
IsDeclaringLine(raw_line) ==
  LET fields == split(raw_line, 2)
  IN Len(fields) >= 2 /\ upper(fields[1]) = <<"V","A","R">>

DeclaredName(raw_line) == split(raw_line, 2)[2]

DeclaredValue(raw_line) ==
  LET fields == split(raw_line, 2)
  IN IF Len(fields) > 2 THEN fields[3] ELSE UndefinedValue

\* Zero-based column, in the line of the document, where the name begins
NameColumn(raw_line) ==
  LET keyword == first_non_space(raw_line, 1)
      gap     == first_space(raw_line, keyword)
  IN first_non_space(raw_line, gap) - 1

\* The identifier tokens under the cursor (at most one)
TokensUnderCursor(line, character) ==
  LET Under(m) == UnderCursor(m, character)
  IN SelectSeq(finditer(line), Under)

\* The request is for a document with a snapshot and a cursor on one of its lines
OnStoredLine ==
  /\ last.uri \in DOMAIN document_states
  /\ last.line < Len(workspace[last.uri].lines)

CursorLine == workspace[last.uri].lines[last.line + 1]

\* Number of completion items of a kind with a label
CountItems(items, kind, label) ==
  Cardinality({i \in 1..Len(items) : items[i].kind = kind /\ items[i].label = label})

\* One entry per keyword and one per builtin
OffersKeywordsAndBuiltins(items) ==
  /\ \A k \in 1..Len(KEYWORDS) : CountItems(items, KindKeyword, KEYWORDS[k]) = 1
  /\ \A b \in BuiltinNames : CountItems(items, KindFunction, b) = 1
  /\ \A i \in 1..Len(items) :
       \/ items[i].kind = KindVariable
       \/ items[i].kind = KindKeyword /\ items[i].label \in KeywordSet
       \/ items[i].kind = KindFunction /\ items[i].label \in BuiltinNames

\* C3 as stated: without a snapshot for the id, definition, hover and
\* completions all return no result.
C3_NoSnapshotNoResult ==
  (last.kind \in Requests /\ last.uri \notin DOMAIN document_states)
    => response = None

\* C3 as amended: without a snapshot for the id, definition and hover return
\* no result, and completions returns one entry per keyword and one per
\* builtin and no variable entry.
C3_NoSnapshotNoVariables ==
  /\ (last.kind \in {"definition", "hover"} /\ last.uri \notin DOMAIN document_states)
       => response = None
  /\ (last.kind = "completions" /\ last.uri \notin DOMAIN document_states)
       => /\ response.tag = "items"
          /\ OffersKeywordsAndBuiltins(response.items)
          /\ \A i \in 1..Len(response.items) : response.items[i].kind # KindVariable

\* A completion request for an id without snapshot while the other document
\* holds declared variables
C3_Witness ==
  /\ last.kind = "completions"
  /\ last.uri \notin DOMAIN document_states
  /\ \E other \in DOMAIN document_states : document_states[other].variables # <<>>

\* C4: a definition or hover request, whatever the id and the cursor
\* position, ends with a result or with no result, never with a fault.
C4_RequestsNeverFault ==
  last.kind \in {"definition", "hover"} => response # IndexError

\* C5: every identifier token of the text that is no keyword (in any case),
\* no declared name and no builtin gets exactly one diagnostic, whose range
\* is the line of the token with its start and end column in that line.
C5_UndefinedTokensFlaggedInPlace ==
  last.kind \in Notifications =>
    LET lines == splitlines(last.text, FALSE)
        diagnostics == published[1].diagnostics
        declared == DictKeys(document_states[last.uri].variables)
    IN \A l \in 1..Len(lines) :
         LET tokens == finditer(lines[l])
         IN \A t \in 1..Len(tokens) :
              LET word == tokens[t].group
                  place == [start |-> Position(l - 1, tokens[t].start),
                            end   |-> Position(l - 1, tokens[t].end)]
              IN (/\ ~InKeywords(upper(word))
                  /\ word \notin declared
                  /\ word \notin BuiltinNames)
                 => Cardinality({k \in 1..Len(diagnostics) :
                                   /\ diagnostics[k].message = UndefinedMessage(word)
                                   /\ diagnostics[k].range = place}) = 1

\* C6: every name declared by a line VAR <name> [<value text>] has exactly
\* one Symbol, and it records the last declaring line, the column of the
\* name on that line and the text after the name ("undefined" without one).
C6_SymbolRecordsLastDeclaration ==
  last.kind \in Notifications =>
    LET lines == splitlines(last.text, FALSE)
        variables == document_states[last.uri].variables
        declaring == {l \in 1..Len(lines) : IsDeclaringLine(lines[l])}
    IN \A l \in declaring :
         LET name == DeclaredName(lines[l])
             final == CHOOSE m \in declaring :
                        /\ DeclaredName(lines[m]) = name
                        /\ \A n \in declaring : DeclaredName(lines[n]) = name => n <= m
         IN /\ Cardinality({i \in 1..Len(variables) : variables[i][1] = name}) = 1
            /\ DictGet(variables, name) =
                 <<final - 1, NameColumn(lines[final]), DeclaredValue(lines[final])>>

\* C7: no diagnostic lies on the name of a declaration, on any declaring line.
C7_DeclaredNameNeverFlagged ==
  last.kind \in Notifications =>
    LET lines == splitlines(last.text, FALSE)
        diagnostics == published[1].diagnostics
    IN \A l \in 1..Len(lines) :
         IsDeclaringLine(lines[l]) =>
           LET from == NameColumn(lines[l])
               to   == from + Len(DeclaredName(lines[l]))
           IN \A k \in 1..Len(diagnostics) :
                ~ /\ diagnostics[k].range.start.line = l - 1
                  /\ diagnostics[k].range.start.character < to
                  /\ diagnostics[k].range.end.character > from

\* C8: with a snapshot and the cursor in an identifier token, definition
\* returns a location exactly when the token is a Symbol name; the location
\* is on the declaration line of the Symbol and spans exactly the declared
\* name on that line of the document.
C8_DefinitionSpansDeclaredName ==
  (last.kind = "definition" /\ OnStoredLine) =>
    LET variables == document_states[last.uri].variables
        lines == splitlines(document_states[last.uri].text, FALSE)
        tokens == TokensUnderCursor(CursorLine, last.character)
    IN \A t \in 1..Len(tokens) :
         LET word == tokens[t].group IN
         IF DictHas(variables, word)
         THEN /\ response.tag = "Location"
              /\ response.range.start.line = DictGet(variables, word)[1]
              /\ response.range.end.line = DictGet(variables, word)[1]
              /\ LET declaration == lines[response.range.start.line + 1]
                 IN /\ response.range.start.character = NameColumn(declaration)
                    /\ SubSeq(declaration, response.range.start.character + 1,
                              response.range.end.character) = word
         ELSE response = None

\* C9: with a snapshot and the cursor in an identifier token, hover answers
\* by the first category that fits, in the order declared Symbol (the stored
\* value text, also for a builtin name or a keyword), builtin (the registry
\* description), keyword in any case (upper-cased); no result for any other
\* token.
C9_HoverPriority ==
  (last.kind = "hover" /\ OnStoredLine) =>
    LET variables == document_states[last.uri].variables
        tokens == TokensUnderCursor(CursorLine, last.character)
    IN \A t \in 1..Len(tokens) :
         LET word == tokens[t].group IN
         IF word \in DictKeys(variables)
         THEN /\ response.tag = "Hover"
              /\ response.contents.value =
                   variable_markdown(word, DictGet(variables, word)[3])
         ELSE IF word \in BuiltinNames
         THEN /\ response.tag = "Hover"
              /\ response.contents.value = builtin_markdown(word)
         ELSE IF upper(word) \in KeywordSet
         THEN /\ response.tag = "Hover"
              /\ response.contents.value = keyword_markdown(word)
         ELSE response = None

\* A hover on a declared Symbol whose name is a builtin or a keyword
C9_Witness ==
  /\ last.kind = "hover"
  /\ OnStoredLine
  /\ response.tag = "Hover"
  /\ \E t \in 1..Len(TokensUnderCursor(CursorLine, last.character)) :
       LET word == TokensUnderCursor(CursorLine, last.character)[t].group
       IN /\ DictHas(document_states[last.uri].variables, word)
          /\ (word \in BuiltinNames \/ upper(word) \in KeywordSet)

\* C10: for a document with a snapshot, completions returns, whatever the
\* cursor position, exactly one variable entry for each name the current
\* text declares and for no other name, one entry per keyword and one per
\* builtin.
C10_CompletionOffersCurrentSymbols ==
  (last.kind = "completions" /\ last.uri \in DOMAIN document_states) =>
    LET items == response.items
        names == DictKeys(ParseTable[workspace[last.uri].source].variables)
    IN /\ response.tag = "items"
       /\ names = DictKeys(document_states[last.uri].variables)
       /\ \A n \in names : CountItems(items, KindVariable, n) = 1
       /\ \A i \in 1..Len(items) : items[i].kind = KindVariable => items[i].label \in names
       /\ OffersKeywordsAndBuiltins(items)

\* A completion for a document that declares the same name on two lines,
\* while the other document declares a name this one does not
C10_Witness ==
  /\ last.kind = "completions"
  /\ last.uri \in DOMAIN document_states
  /\ LET lines == splitlines(document_states[last.uri].text, FALSE)
     IN \E l, m \in 1..Len(lines) :
          /\ l < m
          /\ IsDeclaringLine(lines[l])
          /\ IsDeclaringLine(lines[m])
          /\ DeclaredName(lines[l]) = DeclaredName(lines[m])
  /\ \E other \in DOMAIN document_states :
       DictKeys(document_states[other].variables)
         \ DictKeys(document_states[last.uri].variables) # {}
====
